---- MODULE Spec2Model ----
(***************************************************************************)
(* Model of the question-asset generation workflow:                        *)
(*   - the POST handler of /api/generate-question-assets                   *)
(*     (src/unnamed/part_002), and                                         *)
(*   - the admin create form that calls it and merges its result           *)
(*     (src/unnamed/part_001).                                             *)
(*                                                                         *)
(* JavaScript strings are sequences of one-character strings, so that      *)
(* trim(), String(array) and join(',') are computed, not assumed.          *)
(* JSON objects are records whose DOMAIN is the set of keys present; a     *)
(* key that is absent reads as undefined.                                  *)
(***************************************************************************)
EXTENDS Integers, Sequences, FiniteSets, TLC

(***************************************************************************)
(* Bounds                                                                  *)
(***************************************************************************)
MaxInputs == 2        \* longest exampleInputs in a request body
MaxOutputs == 2       \* longest exampleOutputs in a request body
MaxExplanations == 2  \* longest explanations in a request body
MaxTests == 23        \* longest hiddenTestCases in a generator response
MaxEdits == 1         \* editing events of the admin in one run of the form
MaxExamples == 2      \* most examples in a draft of the form
MaxDraftTests == 2    \* most hidden test cases the admin adds to a draft
MaxClicks == 2        \* clicks handled between two renders of the form
MaxSubmits == 2       \* calls of CodeEditor's onSubmit in one run

(***************************************************************************)
(* JavaScript strings                                                      *)
(***************************************************************************)
Whitespace == {" ", "\n"}

\* The text values a caller or the generator may put in a field.
Str == {<<>>, <<" ">>, <<"a">>}

\* The values of an example input or output in a request: blank or not.
ExampleStr == {<<" ">>, <<"a">>}

RECURSIVE trimStart(_)
trimStart(s) ==
  IF s # <<>> /\ Head(s) \in Whitespace THEN trimStart(Tail(s)) ELSE s

RECURSIVE trimEnd(_)
trimEnd(s) ==
  IF s # <<>> /\ s[Len(s)] \in Whitespace
    THEN trimEnd(SubSeq(s, 1, Len(s) - 1))
    ELSE s

\* String.prototype.trim
trim(s) == trimEnd(trimStart(s))

\* Array.prototype.join(',') on an array of strings; this is also what
\* String(array) yields.
RECURSIVE join(_)
join(xs) ==
  IF xs = <<>> THEN <<>>
  ELSE IF Len(xs) = 1 THEN xs[1]
  ELSE xs[1] \o <<",">> \o join(Tail(xs))

\* Sequences over S of length 0..n
SeqUpTo(S, n) == UNION {[1..k -> S] : k \in 0..n}

\* The object r restricted to the keys in D (the other keys are absent).
Restrict(r, D) == [k \in D \cap DOMAIN r |-> r[k]]

Has(obj, k) == k \in DOMAIN obj

(***************************************************************************)
(* State                                                                   *)
(***************************************************************************)
VARIABLES
  env,          \* process.env of the server: GEMINI_API_KEY present or not
  pc,           \* position of the POST handler
  body,         \* the parsed request body (await request.json())
  prompt,       \* the prompt handed to model.generateContent
  genCalls,     \* number of calls of model.generateContent for this request
  genResult,    \* what generateContent returned or threw
  warned,       \* console.warn was called about the number of test cases
  response,     \* the NextResponse the handler returned
  formData,     \* the create form's draft (useState(initialFormData))
  isGenerating, \* the create form's isGenerating flag
  error,        \* the create form's error message, or null
  request,      \* the last fetch of handleGenerateAssets, and whether it is in flight
  fetched,      \* what that fetch settled with (response / generatedData)
  edits,        \* number of editing events the admin has made so far
  route,        \* the page the router shows
  isSubmitting, \* the create form's isSubmitting flag
  saving,       \* the edit page's saving flag
  write,        \* the last addDoc / updateDoc issued to the store
  props,        \* the props the parent passes to CodeEditor
  uncontrolledCode, \* CodeEditor's internal code (useState)
  submitted     \* the arguments of the calls of CodeEditor's onSubmit, in order

serverVars == <<env, pc, body, prompt, genCalls, genResult, warned, response>>

pageVars == <<route, isSubmitting, saving, write>>

editorVars == <<props, uncontrolledCode, submitted>>

formVars == <<formData, isGenerating, error, request, fetched, edits,
              route, isSubmitting, saving, write,
              props, uncontrolledCode, submitted>>

vars == <<env, pc, body, prompt, genCalls, genResult, warned, response,
          formData, isGenerating, error, request, fetched, edits,
          route, isSubmitting, saving, write,
          props, uncontrolledCode, submitted>>

(***************************************************************************)
(* The request body: GenerationRequestData                                 *)
(***************************************************************************)
TextFields == {"problemDescription", "constraints", "inputFormat", "outputFormat"}
ListFields == {"exampleInputs", "exampleOutputs", "explanations"}

\* Object.entries(requiredFields): the keys in the order of the literal.
requiredFields ==
  <<"problemDescription", "constraints", "inputFormat", "outputFormat",
    "exampleInputs", "exampleOutputs", "explanations">>

\* String(value): a string is itself, an array is its elements joined by ','.
String(k, value) == IF k \in ListFields THEN join(value) ELSE value

\* !value: undefined (key absent) and '' are falsy; every array is truthy.
Falsy(obj, k) ==
  \/ ~Has(obj, k)
  \/ k \notin ListFields /\ obj[k] = <<>>

\* Variant of the filter that tests only !value, without the trim.
isMissing_noTrim(b, k) == Falsy(b, k)

\* The filter of line 78: !value || String(value).trim() === ''
isMissing(b, k) == Falsy(b, k) \/ trim(String(k, b[k])) = <<>>

missingFields(b) == SelectSeq(requiredFields, LAMBDA k : isMissing(b, k))

\* exampleInputs.some(ex => String(ex).trim() === '')
someBlank(xs) == \E i \in 1..Len(xs) : trim(xs[i]) = <<>>

\* The condition of line 89.
invalidExampleInputs(b) ==
  \/ ~Has(b, "exampleInputs")
  \/ Len(b.exampleInputs) = 0
  \/ someBlank(b.exampleInputs)

\* The condition of line 97.
invalidExampleOutputs(b) ==
  \/ ~Has(b, "exampleOutputs")
  \/ Len(b.exampleOutputs) # Len(b.exampleInputs)
  \/ someBlank(b.exampleOutputs)

\* The request bodies a caller may send: every key present ...
FullBodies ==
  [problemDescription : Str, constraints : Str,
   inputFormat : Str, outputFormat : Str,
   exampleInputs : SeqUpTo(ExampleStr, MaxInputs),
   exampleOutputs : SeqUpTo(ExampleStr, MaxOutputs),
   explanations : SeqUpTo(Str, MaxExplanations)]

\* ... or one key left out of an otherwise complete body.
CompleteBodies ==
  {b \in FullBodies :
     /\ \A k \in TextFields : b[k] = <<"a">>
     /\ \A k \in ListFields : b[k] # <<>> /\ \A i \in 1..Len(b[k]) : b[k][i] = <<"a">>}

Bodies ==
  FullBodies \cup
  {Restrict(b, DOMAIN b \ {k}) : b \in CompleteBodies, k \in TextFields \cup ListFields}

(***************************************************************************)
(* Prompt construction (lines 118-163)                                     *)
(***************************************************************************)
\* explanations && explanations[index] ? `Explanation:\n${...}` : ''
explanationPart(b, i) ==
  IF Has(b, "explanations") /\ i <= Len(b.explanations) /\ b.explanations[i] # <<>>
    THEN [rendered |-> TRUE, text |-> b.explanations[i]]
    ELSE [rendered |-> FALSE, text |-> <<>>]

\* One block per element of exampleInputs, numbered from 1.
examplesString(b) ==
  [i \in 1..Len(b.exampleInputs) |->
     [number |-> i,
      input |-> b.exampleInputs[i],
      output |-> b.exampleOutputs[i],
      explanation |-> explanationPart(b, i)]]

\* Variant of the prompt that also carries the server's credential.
buildPrompt_withCredential(b) ==
  [problemDescription |-> b.problemDescription \o env.GEMINI_API_KEY,
   constraints |-> b.constraints,
   inputFormat |-> b.inputFormat,
   outputFormat |-> b.outputFormat,
   examples |-> examplesString(b)]

buildPrompt(b) ==
  [problemDescription |-> b.problemDescription,
   constraints |-> b.constraints,
   inputFormat |-> b.inputFormat,
   outputFormat |-> b.outputFormat,
   examples |-> examplesString(b)]

NoPrompt ==
  [problemDescription |-> <<>>, constraints |-> <<>>, inputFormat |-> <<>>,
   outputFormat |-> <<>>, examples |-> <<>>]

(***************************************************************************)
(* What the generator may return                                           *)
(***************************************************************************)
Languages == {"python", "javascript", "cpp", "java"}
EntryKeys == {"input", "expectedOutput"}

GoodCode == [l \in Languages |-> <<"a">>]
GoodEntry == [input |-> <<"a">>, expectedOutput |-> <<"a">>]

\* starterCode objects: at most one language deviates (absent, '', ' ').
StarterCodes ==
  {Restrict(sc, D) : sc \in [Languages -> Str], D \in SUBSET Languages}

NearCodes ==
  {sc \in StarterCodes :
     Cardinality({l \in Languages : ~Has(sc, l) \/ sc[l] # <<"a">>}) <= 1}

\* hidden test case objects: each key absent, '', ' ' or 'a'.
Entries == {Restrict(e, D) : e \in [EntryKeys -> Str], D \in SUBSET EntryKeys}

\* Lengths of hiddenTestCases: the short ones and those around [18, 22].
TestLens == {n \in 0..MaxTests : n <= 2 \/ n >= 17}

\* Arrays of n entries, all complete except possibly the one at position p.
TestArrays ==
  {[i \in 1..n |-> IF i = p THEN e ELSE GoodEntry] :
     n \in TestLens, p \in {1, 2}, e \in Entries}

\* The value of the hiddenTestCases key: an array, or a JSON value that is
\* not an array (Array.isArray is false).
HiddenValues ==
  {[isArray |-> TRUE, items |-> a] : a \in TestArrays}
    \cup {[isArray |-> FALSE, items |-> <<>>]}

\* What JSON.parse may yield: an object with or without the two keys, or null.
ObjectDocs ==
  {Restrict([starterCode |-> sc, hiddenTestCases |-> h], D) :
     sc \in NearCodes, h \in HiddenValues,
     D \in SUBSET {"starterCode", "hiddenTestCases"}}

Docs ==
  {[kind |-> "object", value |-> v] : v \in ObjectDocs}
    \cup {[kind |-> "null", value |-> <<>>], [kind |-> "prose", value |-> <<>>]}

\* A well-formed document with n test cases.
GoodDoc(n) ==
  [kind |-> "object",
   value |-> [starterCode |-> GoodCode,
              hiddenTestCases |-> [isArray |-> TRUE, items |-> [i \in 1..n |-> GoodEntry]]]]

\* The generator's raw text: the document, and the characters around it.
\* Tokens of the text around the document: the three-backquote fence marker,
\* a language tag, a newline, a blank.
Fence == "<fence>"
Pres ==
  {<<>>, <<"\n">>, <<Fence, "json", "\n">>, <<Fence, "\n">>,
   <<" ", Fence, "json", "\n">>, <<Fence, "json", " ">>, <<Fence, "js", "\n">>}
Posts == {<<>>, <<"\n">>, <<"\n", Fence>>, <<"\n", Fence, "\n">>, <<Fence>>}

Texts ==
  {[pre |-> <<>>, doc |-> d, post |-> <<>>] : d \in Docs}
    \cup {[pre |-> a, doc |-> d, post |-> z] :
            a \in Pres, z \in Posts,
            d \in {GoodDoc(1), GoodDoc(20), [kind |-> "prose", value |-> <<>>]}}

(***************************************************************************)
(* Cleaning and parsing the generator's text (lines 169-198)               *)
(***************************************************************************)
\* responseText.trim()
trimText(t) == [t EXCEPT !.pre = trimStart(t.pre), !.post = trimEnd(t.post)]

startsWith(pre, pat) ==
  Len(pre) >= Len(pat) /\ SubSeq(pre, 1, Len(pat)) = pat

\* replace(/^<pat>/, '')
removeLeading(pre, pat) ==
  IF startsWith(pre, pat) THEN SubSeq(pre, Len(pat) + 1, Len(pre)) ELSE pre

\* replace(/\n<fence>$/, '')
removeClosing(post) ==
  IF Len(post) >= 2 /\ SubSeq(post, Len(post) - 1, Len(post)) = <<"\n", Fence>>
    THEN SubSeq(post, 1, Len(post) - 2)
    ELSE post

\* Variant of the cleaning that knows only the fence tagged json.
cleanResponse_jsonOnly(t) ==
  LET c == trimText(t) IN
    IF startsWith(c.pre, <<Fence, "json">>)
      THEN [c EXCEPT !.pre = removeLeading(c.pre, <<Fence, "json", "\n">>),
                     !.post = removeClosing(c.post)]
    ELSE c

\* Lines 170-175.
cleanResponse(t) ==
  LET c == trimText(t) IN
    IF startsWith(c.pre, <<Fence, "json">>)
      THEN [c EXCEPT !.pre = removeLeading(c.pre, <<Fence, "json", "\n">>),
                     !.post = removeClosing(c.post)]
    ELSE IF startsWith(c.pre, <<Fence>>)
      THEN [c EXCEPT !.pre = removeLeading(c.pre, <<Fence, "\n">>),
                     !.post = removeClosing(c.post)]
    ELSE c

\* JSON.parse succeeds when only whitespace surrounds a JSON document.
parses(c) ==
  /\ \A i \in 1..Len(c.pre) : c.pre[i] \in Whitespace
  /\ \A i \in 1..Len(c.post) : c.post[i] \in Whitespace
  /\ c.doc.kind # "prose"

\* !obj.key for a string-valued key: absent or ''.
falsyKey(obj, k) == ~Has(obj, k) \/ obj[k] = <<>>

\* Variant of the structure check that tests only one starterCode language.
invalidStructure_onlyPython(d) ==
  \/ d.kind = "null"
  \/ ~Has(d.value, "starterCode")
  \/ falsyKey(d.value.starterCode, "python")
  \/ ~Has(d.value, "hiddenTestCases")
  \/ ~d.value.hiddenTestCases.isArray
  \/ Len(d.value.hiddenTestCases.items) = 0
  \/ falsyKey(d.value.hiddenTestCases.items[1], "input")
  \/ falsyKey(d.value.hiddenTestCases.items[1], "expectedOutput")

\* The condition of lines 182-192 on a parsed object; reading a property of
\* null throws a TypeError, which the same catch handles.
invalidStructure(d) ==
  \/ d.kind = "null"
  \/ ~Has(d.value, "starterCode")
  \/ \E l \in Languages : falsyKey(d.value.starterCode, l)
  \/ ~Has(d.value, "hiddenTestCases")
  \/ ~d.value.hiddenTestCases.isArray
  \/ Len(d.value.hiddenTestCases.items) = 0
  \/ falsyKey(d.value.hiddenTestCases.items[1], "input")
  \/ falsyKey(d.value.hiddenTestCases.items[1], "expectedOutput")

\* Variant of the length check with the lower limit off by one.
lengthWarning_offByOne(d) ==
  \/ Len(d.value.hiddenTestCases.items) <= 18
  \/ Len(d.value.hiddenTestCases.items) > 22

\* The condition of line 196.
lengthWarning(d) ==
  \/ Len(d.value.hiddenTestCases.items) < 18
  \/ Len(d.value.hiddenTestCases.items) > 22

(***************************************************************************)
(* Responses                                                               *)
(***************************************************************************)
NoResponse == [status |-> 0, body |-> [none |-> TRUE]]

errorResponse(status, message) == [status |-> status, body |-> [error |-> message]]

MissingFieldsError(missing) == <<"Missing required fields: ">> \o missing
ExampleInputsError == <<"At least one valid example input is required.">>
ExampleOutputsError ==
  <<"Example outputs are required, must match the number of inputs, and cannot be empty.">>
\* Variant that answers with the text of the console.error of line 108.
NotConfiguredError_logText == <<"Gemini API Key is not configured.">>

NotConfiguredError == <<"AI service is not configured on the server.">>
ProcessingError ==
  <<"Failed to process AI response. Please check the format or try again.">>
\* Variant of the outer catch that answers with the message of the inner one.
GenerationFailedError_asProcessing(message) == ProcessingError

GenerationFailedError(message) == <<"Generation failed: ", message>>

NoResult == [threw |-> FALSE, message |-> "", text |-> [pre |-> <<>>, doc |-> [kind |-> "prose", value |-> <<>>], post |-> <<>>]]

(***************************************************************************)
(* The POST handler                                                        *)
(***************************************************************************)
\* The body has not been read (request.json() has not resolved).
NotRead == [unread |-> TRUE]

\* What makes lines 56-65 throw: the request's text is not JSON, or it is the
\* JSON value null, which cannot be destructured.
ReadFailures ==
  {"Unexpected token in JSON at position 0",
   "Cannot destructure property of null"}

\* The bodies of the callers of the whole handler: complete ones, and the
\* same with one key left out.
RawBodies ==
  CompleteBodies \cup
  {Restrict(b, DOMAIN b \ {k}) : b \in CompleteBodies, k \in TextFields \cup ListFields}

\* Lines 40-65 and the catch of lines 214-221: the request arrives, its body
\* is read and destructured, or that throws and the catch answers.
POST_ReadBody ==
  /\ pc = "arrived"
  /\ \/ \E b \in RawBodies :
          /\ body' = b
          /\ pc' = "received"
          /\ UNCHANGED response
     \/ \E message \in ReadFailures :
          /\ response' = errorResponse(500, GenerationFailedError(message))
          /\ pc' = "responded"
          /\ UNCHANGED body
  /\ UNCHANGED <<env, prompt, genCalls, genResult, warned>>
  /\ UNCHANGED formVars

\* Variant that goes on to the generator without looking at the credential.
notConfigured_never(e) == FALSE

\* !process.env.GEMINI_API_KEY (line 107): unset or empty.
notConfigured(e) == falsyKey(e, "GEMINI_API_KEY")

\* Lines 56-166: validation, credential check, prompt, call of the generator.
POST_Validate ==
  /\ pc = "received"
  /\ LET missing == missingFields(body) IN
       IF missing # <<>> THEN
         /\ response' = errorResponse(400, MissingFieldsError(missing))
         /\ pc' = "responded"
         /\ UNCHANGED <<prompt, genCalls>>
       ELSE IF invalidExampleInputs(body) THEN
         /\ response' = errorResponse(400, ExampleInputsError)
         /\ pc' = "responded"
         /\ UNCHANGED <<prompt, genCalls>>
       ELSE IF invalidExampleOutputs(body) THEN
         /\ response' = errorResponse(400, ExampleOutputsError)
         /\ pc' = "responded"
         /\ UNCHANGED <<prompt, genCalls>>
       ELSE IF notConfigured(env) THEN
         /\ response' = errorResponse(500, NotConfiguredError)
         /\ pc' = "responded"
         /\ UNCHANGED <<prompt, genCalls>>
       ELSE
         /\ prompt' = buildPrompt(body)
         /\ genCalls' = genCalls + 1
         /\ pc' = "generating"
         /\ UNCHANGED response
  /\ UNCHANGED <<env, body, genResult, warned>>
  /\ UNCHANGED formVars

\* model.generateContent(prompt) and response.text(): the external generator
\* returns some text, or the call throws.
generateContent ==
  /\ pc = "generating"
  /\ \/ \E t \in Texts : genResult' = [threw |-> FALSE, message |-> "", text |-> t]
     \/ genResult' = [NoResult EXCEPT !.threw = TRUE, !.message = "fetch failed"]
  /\ pc' = "resumed"
  /\ UNCHANGED <<env, body, prompt, genCalls, warned, response>>
  /\ UNCHANGED formVars

\* What the catch of line 200 receives: the SyntaxError of JSON.parse, the
\* TypeError of reading a property of null, or the Error thrown at line 193.
parseError(cleaned) ==
  IF ~parses(cleaned) THEN "SyntaxError: Unexpected token in JSON"
  ELSE IF cleaned.doc.kind = "null"
    THEN "TypeError: Cannot read properties of null"
  ELSE "Invalid or incomplete structure in AI response."

\* Variant of the catch that appends the caught error to the message.
processingFailure_withDiagnostic(caught) ==
  errorResponse(500, ProcessingError \o <<caught>>)

\* Lines 200-208: the caught error is logged and a fixed response returned.
processingFailure(caught) == errorResponse(500, ProcessingError)

\* Lines 167-212 and the catch of lines 214-221.
POST_Normalize ==
  /\ pc = "resumed"
  /\ IF genResult.threw THEN
       /\ response' = errorResponse(500, GenerationFailedError(genResult.message))
       /\ UNCHANGED warned
     ELSE
       LET cleaned == cleanResponse(genResult.text) IN
         IF ~parses(cleaned) \/ invalidStructure(cleaned.doc) THEN
           /\ response' = processingFailure(parseError(cleaned))
           /\ UNCHANGED warned
         ELSE
           /\ warned' = lengthWarning(cleaned.doc)
           /\ response' = [status |-> 200, body |-> cleaned.doc.value]
  /\ pc' = "responded"
  /\ UNCHANGED <<env, body, prompt, genCalls, genResult>>
  /\ UNCHANGED formVars

POST == POST_Validate \/ generateContent \/ POST_Normalize

(***************************************************************************)
(* The create form (AdminCreateICPPage)                                    *)
(***************************************************************************)
null == <<>>

EmptyEntry == [input |-> <<>>, expectedOutput |-> <<>>]

initialFormData ==
  [order |-> 1,
   isActive |-> TRUE,
   deadline |-> <<>>,
   content |->
     [problemDescription |-> <<>>,
      constraints |-> <<>>,
      inputFormat |-> <<>>,
      outputFormat |-> <<>>,
      exampleInputs |-> << <<>> >>,
      exampleOutputs |-> << <<>> >>,
      explanations |-> << <<>> >>,
      hiddenTestCases |-> <<EmptyEntry>>,
      starterCode |-> [l \in Languages |-> <<>>]]]

NoRequest == [pending |-> FALSE, body |-> <<>>]

\* The routes of the two forms and of the list both return to.
CreateRoute == "/admin/questions/create"

EditRoute == "/admin/questions/[id]/edit"

ListRoute == "/admin/questions"

\* No document has been handed to the store.
NoWrite == [state |-> "none", op |-> "", data |-> <<>>]

NoProps == [mounted |-> FALSE]

NoOutcome == [threw |-> FALSE, status |-> 0, statusText |-> "", body |-> <<>>]

\* The fetch has resolved with a response whose body is still to be read.
Arrived(f) == f.status # 0

\* What the admin types into a field.
Typed == {<<" ">>, <<"b">>}

\* xs with element i replaced by v (map with i === index ? value : item).
replaceAt(xs, i, v) == [j \in 1..Len(xs) |-> IF j = i THEN v ELSE xs[j]]

\* xs without element i (filter((_, i) => i !== index)).
removeAt(xs, i) ==
  [j \in 1..(Len(xs) - (IF i \in 1..Len(xs) THEN 1 ELSE 0)) |->
     IF j < i THEN xs[j] ELSE xs[j + 1]]

\* filter(ex => ex.trim()): the entries that are not blank, in order.
filterNonBlank(xs) == SelectSeq(xs, LAMBDA ex : trim(ex) # <<>>)

\* An editing event: the handler's functional update applied to the draft.
edit(next) ==
  /\ route = CreateRoute
  /\ edits < MaxEdits
  /\ edits' = edits + 1
  /\ formData' = next
  /\ UNCHANGED <<isGenerating, error, request, fetched>>
  /\ UNCHANGED <<pageVars, editorVars>>
  /\ UNCHANGED serverVars

\* Lines 71-82: order, isActive and deadline.
handleInputChange ==
  \/ \E checked \in BOOLEAN : edit([formData EXCEPT !.isActive = checked])
  \/ \E value \in {0, 2} : edit([formData EXCEPT !.order = value])
  \/ \E value \in {<<>>, <<"d">>} : edit([formData EXCEPT !.deadline = value])

\* Lines 84-90.
handleContentChange ==
  \E name \in TextFields, value \in Typed :
    edit([formData EXCEPT !.content[name] = value])

\* Lines 92-100.
handleExampleChange ==
  \E field \in ListFields, value \in Typed :
    \E index \in 1..Len(formData.content[field]) :
      edit([formData EXCEPT !.content[field] = replaceAt(@, index, value)])

\* Lines 102-112.
addExample ==
  /\ Len(formData.content.exampleInputs) < MaxExamples
  /\ edit([formData EXCEPT !.content.exampleInputs = Append(@, <<>>),
                           !.content.exampleOutputs = Append(@, <<>>),
                           !.content.explanations = Append(@, <<>>)])

\* Lines 114-125.
removeExample ==
  \E index \in 1..Len(formData.content.exampleInputs) :
    /\ Len(formData.content.exampleInputs) > 1
    /\ edit([formData EXCEPT !.content.exampleInputs = removeAt(@, index),
                             !.content.exampleOutputs = removeAt(@, index),
                             !.content.explanations = removeAt(@, index)])

\* Lines 127-137.
handleTestCaseChange ==
  \E field \in EntryKeys, value \in Typed :
    \E index \in 1..Len(formData.content.hiddenTestCases) :
      edit([formData EXCEPT !.content.hiddenTestCases[index] =
                               [k \in DOMAIN @ \cup {field} |-> IF k = field THEN value ELSE @[k]]])

\* Lines 139-147.
addTestCase ==
  /\ Len(formData.content.hiddenTestCases) < MaxDraftTests
  /\ edit([formData EXCEPT !.content.hiddenTestCases = Append(@, EmptyEntry)])

\* Lines 149-158.
removeTestCase ==
  \E index \in 1..Len(formData.content.hiddenTestCases) :
    /\ Len(formData.content.hiddenTestCases) > 1
    /\ edit([formData EXCEPT !.content.hiddenTestCases = removeAt(@, index)])

\* Lines 160-169.
handleStarterCodeChange ==
  \E name \in Languages, value \in Typed :
    edit([formData EXCEPT !.content.starterCode =
            [k \in DOMAIN @ \cup {name} |-> IF k = name THEN value ELSE @[k]]])

PrecheckError ==
  <<"Please fill in Description, Constraints, I/O Formats, and at least one Example before generating.">>

\* The condition of lines 306-311.
precheckFails(c) ==
  \/ trim(c.problemDescription) = <<>>
  \/ trim(c.constraints) = <<>>
  \/ trim(c.inputFormat) = <<>>
  \/ trim(c.outputFormat) = <<>>
  \/ trim(c.exampleInputs[1]) = <<>>
  \/ trim(c.exampleOutputs[1]) = <<>>

\* The body of the fetch, lines 327-335.
requestBody(c) ==
  [problemDescription |-> c.problemDescription,
   constraints |-> c.constraints,
   inputFormat |-> c.inputFormat,
   outputFormat |-> c.outputFormat,
   exampleInputs |-> filterNonBlank(c.exampleInputs),
   exampleOutputs |-> filterNonBlank(c.exampleOutputs),
   explanations |-> filterNonBlank(c.explanations)]

\* Variant of the button without the disabled attribute.
generateDisabled_never == FALSE

\* Lines 587-591: the button's disabled attribute.
generateDisabled == isGenerating

\* Lines 305-336: the click on 'Generate', up to the await of fetch.  The
\* button is disabled while isGenerating; reading [0] of an empty array
\* throws and leaves the state as it is.
handleGenerateAssets ==
  /\ ~generateDisabled
  /\ Len(formData.content.exampleInputs) > 0
  /\ Len(formData.content.exampleOutputs) > 0
  /\ IF precheckFails(formData.content) THEN
       /\ error' = PrecheckError
       /\ UNCHANGED <<isGenerating, request>>
     ELSE
       /\ isGenerating' = TRUE
       /\ error' = null
       /\ request' = [pending |-> TRUE, body |-> requestBody(formData.content)]
  /\ UNCHANGED <<formData, fetched, edits>>
  /\ UNCHANGED <<pageVars, editorVars>>
  /\ UNCHANGED serverVars

\* Variant of the updater that fills in the generated starter code language
\* by language, keeping the draft's code for a language that is not generated.
mergeGenerated_perLanguage(prev, generatedData) ==
  [prev EXCEPT
     !.content.starterCode =
        IF Has(generatedData, "starterCode")
          THEN [l \in DOMAIN @ \cup DOMAIN generatedData.starterCode |->
                  IF Has(generatedData.starterCode, l) THEN generatedData.starterCode[l] ELSE @[l]]
          ELSE @,
     !.content.hiddenTestCases =
        IF /\ Has(generatedData, "hiddenTestCases")
           /\ generatedData.hiddenTestCases.isArray
           /\ Len(generatedData.hiddenTestCases.items) > 0
          THEN generatedData.hiddenTestCases.items
          ELSE @]

\* Variant of the updater that spreads the initial content instead of the
\* previous content.
mergeGenerated_fromInitial(prev, generatedData) ==
  [prev EXCEPT
     !.content =
        [initialFormData.content EXCEPT
           !.starterCode =
              IF Has(generatedData, "starterCode") THEN generatedData.starterCode
              ELSE prev.content.starterCode,
           !.hiddenTestCases =
              IF /\ Has(generatedData, "hiddenTestCases")
                 /\ generatedData.hiddenTestCases.isArray
                 /\ Len(generatedData.hiddenTestCases.items) > 0
                THEN generatedData.hiddenTestCases.items
                ELSE prev.content.hiddenTestCases]]

\* The updater of lines 345-354, applied to the draft as it is when the
\* response arrives.  A hiddenTestCases that is not an array has no length.
mergeGenerated(prev, generatedData) ==
  [prev EXCEPT
     !.content.starterCode =
        IF Has(generatedData, "starterCode") THEN generatedData.starterCode ELSE @,
     !.content.hiddenTestCases =
        IF /\ Has(generatedData, "hiddenTestCases")
           /\ generatedData.hiddenTestCases.isArray
           /\ Len(generatedData.hiddenTestCases.items) > 0
          THEN generatedData.hiddenTestCases.items
          ELSE @]

\* errorData.error || `API Error: ${response.statusText}`
errorOf(r) ==
  IF Has(r.body, "error") /\ r.body.error # <<>>
    THEN r.body.error
    ELSE <<"API Error: ", r.statusText>>

\* What the form may receive from /api/generate-question-assets.
GeneratedCode == [l \in Languages |-> <<"g">>]
GeneratedEntry(i) == [input |-> <<"x", ToString(i)>>, expectedOutput |-> <<"y">>]

GeneratedBodies ==
  {Restrict([starterCode |-> sc, hiddenTestCases |-> h], D) :
     sc \in {GeneratedCode, Restrict(GeneratedCode, {"python"})},
     h \in {[isArray |-> TRUE, items |-> [i \in 1..n |-> GeneratedEntry(i)]] : n \in {0, 2}}
             \cup {[isArray |-> FALSE, items |-> <<>>]},
     D \in SUBSET {"starterCode", "hiddenTestCases"}}

FetchOutcomes ==
  {[threw |-> FALSE, status |-> 200, statusText |-> "OK", body |-> b] : b \in GeneratedBodies}
    \cup {[threw |-> FALSE, status |-> 400, statusText |-> "Bad Request",
           body |-> [error |-> MissingFieldsError(<<"explanations">>)]],
          [threw |-> FALSE, status |-> 502, statusText |-> "Bad Gateway", body |-> <<>>],
          [threw |-> TRUE, status |-> 0, statusText |-> "Failed to fetch", body |-> <<>>],
          [threw |-> TRUE, status |-> 0, statusText |-> "Unexpected end of JSON input", body |-> <<>>]}

\* Variant of response.ok that takes every status below 500 for a success.
ok_below500(r) == r.status < 500

\* response.ok (line 338): the status is in the range 200-299.
ok(r) == r.status \in 200..299

\* Lines 321 and 358-363: the fetch settles.  A rejected fetch, or a body that
\* response.json() cannot parse, is caught at once; a response is kept while
\* its body is read.
fetchSettles ==
  /\ request.pending /\ ~Arrived(fetched)
  /\ \E r \in FetchOutcomes :
       IF r.threw THEN
         /\ error' = <<r.statusText>>
         /\ isGenerating' = FALSE
         /\ request' = [request EXCEPT !.pending = FALSE]
         /\ UNCHANGED fetched
       ELSE
         /\ fetched' = r
         /\ UNCHANGED <<error, isGenerating, request>>
  /\ UNCHANGED <<formData, edits>>
  /\ UNCHANGED <<pageVars, editorVars>>
  /\ UNCHANGED serverVars

\* Lines 338-363: handleGenerateAssets resumes with the body of the response.
resumeGenerateAssets ==
  /\ request.pending /\ Arrived(fetched)
  /\ IF ~ok(fetched) THEN
       /\ error' = errorOf(fetched)
       /\ UNCHANGED formData
     ELSE
       /\ formData' = mergeGenerated(formData, fetched.body)
       /\ UNCHANGED error
  /\ isGenerating' = FALSE
  /\ request' = [request EXCEPT !.pending = FALSE]
  /\ fetched' = NoOutcome
  /\ UNCHANGED edits
  /\ UNCHANGED <<pageVars, editorVars>>
  /\ UNCHANGED serverVars

\* JSON.parse(JSON.stringify(value)) for an object of strings and arrays of
\* strings: every key, string and array element comes back as it was sent.
jsonRoundTrip(value) ==
  [k \in DOMAIN value |->
     IF k \in ListFields
       THEN [i \in 1..Len(value[k]) |-> value[k][i]]
       ELSE value[k]]

\* The form's fetch reaches the route handler, which reads the body (lines
\* 321-336 of the form, 40-65 of the handler); the handler's locals are new
\* for every request.
fetchPOST ==
  /\ request.pending /\ ~Arrived(fetched)
  /\ pc = "idle"
  /\ body' = jsonRoundTrip(request.body)
  /\ pc' = "received"
  /\ prompt' = NoPrompt
  /\ genCalls' = 0
  /\ genResult' = NoResult
  /\ warned' = FALSE
  /\ response' = NoResponse
  /\ UNCHANGED env
  /\ UNCHANGED formVars

\* The texts the generator returns in the runs of form and handler together:
\* 20 test cases bare, one test case in a json fence, and prose.
SampleTexts ==
  {[pre |-> <<>>, doc |-> GoodDoc(20), post |-> <<>>],
   [pre |-> <<Fence, "json", "\n">>, doc |-> GoodDoc(1), post |-> <<"\n", Fence>>],
   [pre |-> <<>>, doc |-> [kind |-> "prose", value |-> <<>>], post |-> <<>>]}

\* generateContent with the generator's texts taken from SampleTexts.
generateSample ==
  /\ generateContent
  /\ genResult'.threw \/ genResult'.text \in SampleTexts

statusTextOf(status) ==
  IF status = 200 THEN "OK"
  ELSE IF status = 400 THEN "Bad Request"
  ELSE "Internal Server Error"

\* The handler's response arrives at the form: the fetch of line 321 resolves.
fetchResolves ==
  /\ request.pending /\ ~Arrived(fetched)
  /\ pc = "responded"
  /\ fetched' = [threw |-> FALSE, status |-> response.status,
                 statusText |-> statusTextOf(response.status),
                 body |-> response.body]
  /\ pc' = "idle"
  /\ UNCHANGED <<env, body, prompt, genCalls, genResult, warned, response>>
  /\ UNCHANGED <<formData, isGenerating, error, request, edits>>
  /\ UNCHANGED <<pageVars, editorVars>>

\* Drafts the admin has typed before the run starts: the untouched form, or
\* a filled-in one with n examples and m hidden test cases.
FilledDraft(n, m) ==
  [order |-> 1,
   isActive |-> TRUE,
   deadline |-> <<"d">>,
   content |->
     [problemDescription |-> <<"a">>,
      constraints |-> <<"a">>,
      inputFormat |-> <<"a">>,
      outputFormat |-> <<"a">>,
      exampleInputs |-> [i \in 1..n |-> <<"i", ToString(i)>>],
      exampleOutputs |-> [i \in 1..n |-> <<"o", ToString(i)>>],
      explanations |-> [i \in 1..n |-> <<"e", ToString(i)>>],
      hiddenTestCases |-> [j \in 1..m |-> [input |-> <<"t", ToString(j)>>, expectedOutput |-> <<"u">>]],
      starterCode |-> [l \in Languages |-> <<"s">>]]]

Drafts ==
  {initialFormData} \cup
  {FilledDraft(n, m) : n \in {1, MaxExamples}, m \in {1, MaxDraftTests}}

(***************************************************************************)
(* Clicks on the create form that are handled before it renders again      *)
(***************************************************************************)
\* The clicks the rendered form offers.  shown is the draft of the render:
\* a remove button is rendered only for a list of more than one row (lines
\* 540 and 632), and a row's fields only for the rows of the render.
ClicksOn(shown) ==
  {[handler |-> "addExample"], [handler |-> "addTestCase"]}
  \cup {[handler |-> "removeExample", index |-> index] :
          index \in IF Len(shown.content.exampleInputs) > 1
                      THEN 1..Len(shown.content.exampleInputs) ELSE {}}
  \cup {[handler |-> "removeTestCase", index |-> index] :
          index \in IF Len(shown.content.hiddenTestCases) > 1
                      THEN 1..Len(shown.content.hiddenTestCases) ELSE {}}
  \cup {[handler |-> "handleExampleChange", index |-> index, field |-> field, value |-> value] :
          index \in 1..Len(shown.content.exampleInputs), field \in ListFields, value \in Typed}
  \cup {[handler |-> "handleTestCaseChange", index |-> index, field |-> field, value |-> value] :
          index \in 1..Len(shown.content.hiddenTestCases), field \in EntryKeys, value \in Typed}

\* One click: the handler's early return reads the draft of the render its
\* closure belongs to (shown), and its functional update is applied to the
\* latest draft (prev).  Lines 92-158.
handleClick(shown, prev, click) ==
  IF click.handler = "addExample" THEN
    IF Len(prev.content.exampleInputs) < MaxExamples + MaxClicks
      THEN [prev EXCEPT !.content.exampleInputs = Append(@, <<>>),
                        !.content.exampleOutputs = Append(@, <<>>),
                        !.content.explanations = Append(@, <<>>)]
      ELSE prev
  ELSE IF click.handler = "removeExample" THEN
    IF Len(shown.content.exampleInputs) <= 1 THEN prev
    ELSE [prev EXCEPT !.content.exampleInputs = removeAt(@, click.index),
                      !.content.exampleOutputs = removeAt(@, click.index),
                      !.content.explanations = removeAt(@, click.index)]
  ELSE IF click.handler = "addTestCase" THEN
    IF Len(prev.content.hiddenTestCases) < MaxDraftTests + MaxClicks
      THEN [prev EXCEPT !.content.hiddenTestCases = Append(@, EmptyEntry)]
      ELSE prev
  ELSE IF click.handler = "removeTestCase" THEN
    IF Len(shown.content.hiddenTestCases) <= 1 THEN prev
    ELSE [prev EXCEPT !.content.hiddenTestCases = removeAt(@, click.index)]
  ELSE IF click.handler = "handleExampleChange" THEN
    [prev EXCEPT !.content[click.field] = replaceAt(@, click.index, click.value)]
  ELSE
    [prev EXCEPT !.content.hiddenTestCases =
       [i \in 1..Len(@) |->
          IF i = click.index
            THEN [k \in DOMAIN @[i] \cup {click.field} |->
                    IF k = click.field THEN click.value ELSE @[i][k]]
            ELSE @[i]]]

\* The clicks of a sequence, each handled against the same render.
RECURSIVE handleClicks(_, _, _)
handleClicks(shown, prev, clicks) ==
  IF clicks = <<>> THEN prev
  ELSE handleClicks(shown, handleClick(shown, prev, Head(clicks)), Tail(clicks))

\* Up to MaxClicks clicks on the rendered form, handled one after the other
\* before the form renders again.
clicksBeforeRender ==
  \E clicks \in SeqUpTo(ClicksOn(formData), MaxClicks) \ {<<>>} :
    edit(handleClicks(formData, formData, clicks))

(***************************************************************************)
(* The create form's submit (handleSubmit, addDoc)                         *)
(***************************************************************************)
Digits == {"0", "1", "2", "3", "4", "5", "6", "7", "8", "9"}

\* A value of the datetime-local input, YYYY-MM-DDTHH:mm.
ValidDeadline ==
  <<"2", "0", "3", "0", "-", "0", "1", "-", "0", "1", "T", "0", "0", ":", "0", "0">>

\* isNaN(new Date(s).getTime()) for the strings a deadline field can hold.
isNaNDate(s) ==
  ~ /\ Len(s) = 16
    /\ \A i \in 1..16 :
         IF i \in {5, 8} THEN s[i] = "-"
         ELSE IF i = 11 THEN s[i] = "T"
         ELSE IF i = 14 THEN s[i] = ":"
         ELSE s[i] \in Digits

\* Timestamp.fromDate(new Date(s)).
Timestamp(s) == [timestamp |-> s]

\* xs.slice(0, n).
slice(xs, n) == SubSeq(xs, 1, IF n < Len(xs) THEN n ELSE Len(xs))

\* Lines 242-244 (and lines 266-268 of the edit page).
firstTestCaseValid(c) ==
  /\ Len(c.hiddenTestCases) > 0
  /\ trim(c.hiddenTestCases[1].input) # <<>>
  /\ trim(c.hiddenTestCases[1].expectedOutput) # <<>>

\* Line 259.
cleanExampleInputs(c) == SelectSeq(c.exampleInputs, LAMBDA ex : trim(ex) # <<>>)

\* Line 260.
cleanExampleOutputs(c) == slice(c.exampleOutputs, Len(cleanExampleInputs(c)))

\* Line 261.
cleanExplanations(c) == slice(c.explanations, Len(cleanExampleInputs(c)))

\* Variant of the filter of lines 263-265 that keeps every row of the draft.
cleanHiddenTestCases_unfiltered(c) == c.hiddenTestCases

\* Lines 263-265.
cleanHiddenTestCases(c) ==
  SelectSeq(c.hiddenTestCases,
            LAMBDA tc : trim(tc.input) # <<>> /\ trim(tc.expectedOutput) # <<>>)

\* Lines 270-290; the server timestamps and createdBy are left out.
questionData(fd) ==
  [subjectId |-> "icp",
   type |-> "coding",
   order |-> fd.order,
   isActive |-> fd.isActive,
   deadline |-> Timestamp(fd.deadline),
   content |->
     [problemDescription |-> trim(fd.content.problemDescription),
      constraints |-> trim(fd.content.constraints),
      inputFormat |-> trim(fd.content.inputFormat),
      outputFormat |-> trim(fd.content.outputFormat),
      exampleInputs |-> cleanExampleInputs(fd.content),
      exampleOutputs |-> cleanExampleOutputs(fd.content),
      explanations |-> cleanExplanations(fd.content),
      hiddenTestCases |-> cleanHiddenTestCases(fd.content),
      starterCode |-> fd.content.starterCode]]

\* setError(message); setIsSubmitting(false); return.
submitRejected(message) ==
  /\ error' = <<message>>
  /\ isSubmitting' = FALSE
  /\ UNCHANGED write

\* Lines 227-292: the submit of the create form, up to the await of addDoc.
\* The submit button is disabled while isSubmitting.
handleSubmit ==
  /\ route = CreateRoute
  /\ ~isSubmitting
  /\ \A i \in 1..Len(formData.content.hiddenTestCases) :
       {"input", "expectedOutput"} \subseteq DOMAIN formData.content.hiddenTestCases[i]
  /\ IF formData.deadline = <<>> THEN
       submitRejected("Please set a deadline.")
     ELSE IF trim(formData.content.problemDescription) = <<>> THEN
       submitRejected("Problem description is required.")
     ELSE IF ~firstTestCaseValid(formData.content) THEN
       submitRejected("At least one valid hidden test case (with both input and output) is required.")
     ELSE IF isNaNDate(formData.deadline) THEN
       submitRejected("Invalid deadline format. Please use the date picker.")
     ELSE IF Len(cleanHiddenTestCases(formData.content)) = 0 THEN
       submitRejected("Internal error: No complete hidden test cases found after filtering.")
     ELSE
       /\ isSubmitting' = TRUE
       /\ error' = null
       /\ write' = [state |-> "pending", op |-> "addDoc", type |-> "coding",
                    data |-> questionData(formData)]
  /\ UNCHANGED <<formData, isGenerating, request, fetched, edits, route, saving>>
  /\ UNCHANGED editorVars
  /\ UNCHANGED serverVars

\* What a rejected write of the store says.
StoreFailures == {"Missing or insufficient permissions."}

\* Lines 292-302: addDoc resolves (alert, router.push) or rejects (catch),
\* and the finally clears isSubmitting.
addDocSettles ==
  /\ write.state = "pending" /\ write.op = "addDoc"
  /\ \/ /\ write' = [write EXCEPT !.state = "written"]
        /\ route' = ListRoute
        /\ UNCHANGED error
     \/ \E message \in StoreFailures :
          /\ write' = [write EXCEPT !.state = "failed"]
          /\ error' = <<message>>
          /\ UNCHANGED route
  /\ isSubmitting' = FALSE
  /\ UNCHANGED <<formData, isGenerating, request, fetched, edits, saving>>
  /\ UNCHANGED editorVars
  /\ UNCHANGED serverVars

\* Drafts the admin submits: those of the form, with the deadline picked or
\* left empty.
SubmitDrafts ==
  {[d EXCEPT !.deadline = deadline] : d \in Drafts, deadline \in {<<>>, ValidDeadline}}

(***************************************************************************)
(* The edit page (AdminEditQuestionPage)                                   *)
(***************************************************************************)
initialFormStructure ==
  [id |-> <<>>,
   subjectId |-> "icp",
   type |-> "coding",
   order |-> 1,
   isActive |-> TRUE,
   deadline |-> <<>>,
   content |->
     [problemDescription |-> <<>>,
      constraints |-> <<>>,
      inputFormat |-> <<>>,
      outputFormat |-> <<>>,
      exampleInputs |-> << <<>> >>,
      exampleOutputs |-> << <<>> >>,
      explanations |-> << <<>> >>,
      hiddenTestCases |-> <<EmptyEntry>>,
      starterCode |-> [l \in Languages |-> <<>>]]]

\* x?.length ? x : fallback, for a key of the stored content.
orFallback(content, key, fallback) ==
  IF Has(content, key) /\ Len(content[key]) > 0 THEN content[key] ELSE fallback

\* Lines 94-121: the form data loadQuestion sets from a stored document.
loadQuestion(doc) ==
  [id |-> doc.id,
   subjectId |-> doc.subjectId,
   type |-> doc.type,
   order |-> doc.order,
   isActive |-> doc.isActive,
   deadline |-> doc.deadline.timestamp,
   content |->
     [k \in DOMAIN initialFormStructure.content \cup DOMAIN doc.content |->
        IF k \in ListFields \cup {"hiddenTestCases"} THEN
          orFallback(doc.content, k, initialFormStructure.content[k])
        ELSE IF k = "starterCode" THEN
          [l \in Languages |->
             IF Has(doc.content, k) /\ Has(doc.content[k], l)
               THEN doc.content[k][l]
               ELSE initialFormStructure.content.starterCode[l]]
        ELSE IF Has(doc.content, k) THEN doc.content[k]
        ELSE initialFormStructure.content[k]]]

\* The contents of stored questions: as the create form writes them, with
\* and without examples.
StoredContents ==
  {questionData(FilledDraft(n, m)).content : n \in {1, MaxExamples}, m \in {1, MaxDraftTests}}
  \cup {[questionData(FilledDraft(1, 1)).content EXCEPT
           !.exampleInputs = <<>>, !.exampleOutputs = <<>>, !.explanations = <<>>]}

StoredDocs ==
  {[id |-> <<"q">>, subjectId |-> "icp", type |-> type, order |-> 1,
    isActive |-> TRUE, deadline |-> Timestamp(ValidDeadline), content |-> content] :
     type \in {"coding", "maths"}, content \in StoredContents}

\* !formData.
isNull(fd) == DOMAIN fd = {}

\* Lines 365-387: the form is rendered unless error is set or formData is null.
FormRendered == ~(error # null \/ isNull(formData))

\* An editing event of the edit page: if (!formData) return, then the
\* functional update.  The fields exist only while the form is rendered.
editPage(next) ==
  /\ route = EditRoute
  /\ FormRendered
  /\ ~isNull(formData)
  /\ edits < MaxEdits
  /\ edits' = edits + 1
  /\ formData' = next
  /\ UNCHANGED <<isGenerating, error, request, fetched>>
  /\ UNCHANGED <<pageVars, editorVars>>
  /\ UNCHANGED serverVars

\* Lines 138-153.
Edit_handleInputChange ==
  \/ \E checked \in BOOLEAN : editPage([formData EXCEPT !.isActive = checked])
  \/ \E value \in {0, 2} : editPage([formData EXCEPT !.order = value])
  \/ \E value \in {<<>>, <<"d">>} : editPage([formData EXCEPT !.deadline = value])

\* Lines 155-162.
Edit_handleContentChange ==
  \E name \in TextFields, value \in Typed :
    editPage([formData EXCEPT !.content[name] = value])

\* Lines 164-173.
Edit_handleExampleChange ==
  \E field \in ListFields, value \in Typed :
    \E index \in 1..Len(formData.content[field]) :
      editPage([formData EXCEPT !.content[field] = replaceAt(@, index, value)])

\* Lines 175-186.
Edit_addExample ==
  /\ Len(formData.content.exampleInputs) < MaxExamples
  /\ editPage([formData EXCEPT !.content.exampleInputs = Append(@, <<>>),
                               !.content.exampleOutputs = Append(@, <<>>),
                               !.content.explanations = Append(@, <<>>)])

\* Lines 188-199.
Edit_removeExample ==
  \E index \in 1..Len(formData.content.exampleInputs) :
    /\ Len(formData.content.exampleInputs) > 1
    /\ editPage([formData EXCEPT !.content.exampleInputs = removeAt(@, index),
                                 !.content.exampleOutputs = removeAt(@, index),
                                 !.content.explanations = removeAt(@, index)])

\* Lines 201-212.
Edit_handleTestCaseChange ==
  \E field \in EntryKeys, value \in Typed :
    \E index \in 1..Len(formData.content.hiddenTestCases) :
      editPage([formData EXCEPT !.content.hiddenTestCases[index] =
                                   [k \in DOMAIN @ \cup {field} |-> IF k = field THEN value ELSE @[k]]])

\* Lines 214-223.
Edit_addTestCase ==
  /\ Len(formData.content.hiddenTestCases) < MaxDraftTests
  /\ editPage([formData EXCEPT !.content.hiddenTestCases = Append(@, EmptyEntry)])

\* Lines 225-234.
Edit_removeTestCase ==
  \E index \in 1..Len(formData.content.hiddenTestCases) :
    /\ Len(formData.content.hiddenTestCases) > 1
    /\ editPage([formData EXCEPT !.content.hiddenTestCases = removeAt(@, index)])

\* Lines 306-330.
dataToUpdate(fd) ==
  [order |-> fd.order,
   isActive |-> fd.isActive,
   deadline |-> Timestamp(fd.deadline),
   content |->
     IF fd.type = "coding" THEN
       [fd.content EXCEPT
          !.problemDescription = trim(@),
          !.constraints = trim(@),
          !.inputFormat = trim(@),
          !.outputFormat = trim(@),
          !.exampleInputs = cleanExampleInputs(fd.content),
          !.exampleOutputs = cleanExampleOutputs(fd.content),
          !.explanations = cleanExplanations(fd.content),
          !.hiddenTestCases = cleanHiddenTestCases(fd.content)]
     ELSE
       [fd.content EXCEPT !.problemDescription = trim(@)]]

\* setError(message); return (lines 256-273).
saveRejected(message) ==
  /\ error' = <<message>>
  /\ UNCHANGED <<saving, write>>

\* Lines 249-335: the click on Save, up to the await of updateDoc.  The
\* button belongs to the form and is disabled while saving.
handleSave ==
  /\ route = EditRoute
  /\ FormRendered
  /\ ~saving
  /\ IF isNull(formData) THEN
       saveRejected("Form data or user context is missing. Cannot save.")
     ELSE IF formData.deadline = <<>> THEN
       saveRejected("Please ensure the deadline is set.")
     ELSE IF trim(formData.content.problemDescription) = <<>> THEN
       saveRejected("Problem description cannot be empty.")
     ELSE IF formData.type = "coding" /\ ~firstTestCaseValid(formData.content) THEN
       saveRejected("At least one valid hidden test case (with input and output) is required for coding questions.")
     ELSE IF isNaNDate(formData.deadline) THEN
       saveRejected("Failed to update question: Invalid deadline format.")
     ELSE IF formData.type = "coding" /\ Len(cleanHiddenTestCases(formData.content)) = 0 THEN
       saveRejected("Failed to update question: At least one complete hidden test case must be provided for coding questions.")
     ELSE
       /\ saving' = TRUE
       /\ error' = null
       /\ write' = [state |-> "pending", op |-> "updateDoc", type |-> formData.type,
                    data |-> dataToUpdate(formData)]
  /\ UNCHANGED <<formData, isGenerating, request, fetched, edits, route, isSubmitting>>
  /\ UNCHANGED editorVars
  /\ UNCHANGED serverVars

\* Lines 335-346: updateDoc resolves (alert, router.push) or rejects
\* (catch), and the finally clears saving.
updateDocSettles ==
  /\ write.state = "pending" /\ write.op = "updateDoc"
  /\ \/ /\ write' = [write EXCEPT !.state = "written"]
        /\ route' = ListRoute
        /\ UNCHANGED error
     \/ \E message \in StoreFailures :
          /\ write' = [write EXCEPT !.state = "failed"]
          /\ error' = <<"Failed to update question: ", message>>
          /\ UNCHANGED route
  /\ saving' = FALSE
  /\ UNCHANGED <<formData, isGenerating, request, fetched, edits, isSubmitting>>
  /\ UNCHANGED editorVars
  /\ UNCHANGED serverVars

(***************************************************************************)
(* The code editor (CodeEditor)                                            *)
(***************************************************************************)
\* Lines 31-37: the templates, one per language.
defaultCode == [l \in Languages |-> <<"#", l>>]

\* What the editor can hold: nothing, white space or code.
EditorCodes == {<<>>, <<" ">>, <<"x">>}

\* The props a parent passes: language, isSubmitting, onLanguageChange and
\* onSubmit always; value, onChange, initialCode and questionStarterCode or
\* not (lines 8-22).
EditorProps ==
  {Restrict([mounted |-> TRUE, language |-> language, isSubmitting |-> isSubmittingProp,
             value |-> value, onChange |-> TRUE, initialCode |-> initialCode,
             questionStarterCode |-> [python |-> <<"s">>, java |-> <<>>]],
            {"mounted", "language", "isSubmitting"} \cup optional) :
     language \in Languages, isSubmittingProp \in BOOLEAN,
     value \in EditorCodes, initialCode \in {<<>>, <<"x">>},
     optional \in {{}, {"value"}, {"value", "onChange"}, {"initialCode"},
                    {"questionStarterCode"},
                    {"value", "onChange", "questionStarterCode"}}}

\* Line 50.
isControlled(p) == Has(p, "value") /\ Has(p, "onChange")

\* questionStarterCode?.[language], undefined as the empty set.
starterOf(p, language) ==
  IF Has(p, "questionStarterCode") /\ Has(p.questionStarterCode, language)
    THEN {p.questionStarterCode[language]}
    ELSE {}

\* Lines 62-63 and 76-77: the starter code if there is one, else the template.
codeToSet(p, language) ==
  IF starterOf(p, language) # {}
    THEN CHOOSE code \in starterOf(p, language) : TRUE
    ELSE defaultCode[language]

\* Lines 51-59: the internal code after mounting: useState's initial value,
\* then the effect that copies a given initialCode in uncontrolled mode.
mountedCode(p) ==
  IF ~isControlled(p) /\ Has(p, "initialCode") THEN p.initialCode
  ELSE IF Has(p, "initialCode") /\ p.initialCode # <<>> THEN p.initialCode
  ELSE IF starterOf(p, p.language) \notin {{}, {<<>>}} THEN codeToSet(p, p.language)
  ELSE defaultCode[p.language]

\* Line 83.
currentCode == IF isControlled(props) THEN props.value ELSE uncontrolledCode

\* What an event of the editor leaves alone.
editorOnly ==
  /\ UNCHANGED <<formData, isGenerating, error, request, fetched, edits>>
  /\ UNCHANGED pageVars
  /\ UNCHANGED serverVars

\* Lines 141-148: the user edits the code.  In controlled mode the parent's
\* onChange stores the new value and passes it back as value.
Editor_onChange ==
  \E newVal \in EditorCodes :
    /\ props.mounted
    /\ IF isControlled(props)
         THEN props' = [props EXCEPT !.value = newVal] /\ UNCHANGED uncontrolledCode
         ELSE uncontrolledCode' = newVal /\ UNCHANGED props
    /\ UNCHANGED submitted
    /\ editorOnly

\* Lines 61-70; the Reset button is disabled while isSubmitting (line 118).
handleResetCode ==
  /\ props.mounted
  /\ ~props.isSubmitting
  /\ IF isControlled(props)
       THEN props' = [props EXCEPT !.value = codeToSet(props, props.language)]
            /\ UNCHANGED uncontrolledCode
       ELSE uncontrolledCode' = codeToSet(props, props.language) /\ UNCHANGED props
  /\ UNCHANGED submitted
  /\ editorOnly

\* Lines 72-80; the select is disabled while isSubmitting (line 105).  The
\* parent's onLanguageChange passes the new language back as language.
handleLanguageChange ==
  \E newLanguage \in Languages :
    /\ props.mounted
    /\ ~props.isSubmitting
    /\ props' = [props EXCEPT !.language = newLanguage]
    /\ IF isControlled(props)
         THEN UNCHANGED uncontrolledCode
         ELSE uncontrolledCode' = codeToSet(props, newLanguage)
    /\ UNCHANGED submitted
    /\ editorOnly

\* The parent renders the editor with another isSubmitting.
parentRenders ==
  /\ props.mounted
  /\ props' = [props EXCEPT !.isSubmitting = ~@]
  /\ UNCHANGED <<uncontrolledCode, submitted>>
  /\ editorOnly

\* Variant of the condition of line 87 that does not look at isSubmitting.
maySubmit_whileSubmitting(code, submitting) == code # <<>>

\* Line 87: currentCode && !isSubmitting.  The button's disabled attribute
\* (line 171) is the negation of the same condition.
maySubmit(code, submitting) == code # <<>> /\ ~submitting

\* Lines 86-90: the click on Submit.
Editor_handleSubmit ==
  /\ props.mounted
  /\ Len(submitted) < MaxSubmits
  /\ maySubmit(currentCode, props.isSubmitting)
  /\ submitted' = Append(submitted, currentCode)
  /\ UNCHANGED <<props, uncontrolledCode>>
  /\ editorOnly

(***************************************************************************)
(* Specifications                                                          *)
(***************************************************************************)
\* The router shows the create page and nothing has been submitted.
OnCreatePage ==
  /\ route = CreateRoute
  /\ isSubmitting = FALSE
  /\ saving = FALSE
  /\ write = NoWrite

\* No CodeEditor is mounted.
NoEditor ==
  /\ props = NoProps
  /\ uncontrolledCode = <<>>
  /\ submitted = <<>>

\* process.env without and with the credential.
Envs == {<<>>, [GEMINI_API_KEY |-> <<"a">>]}

\* A request arrives at the handler.
InitPOST ==
  /\ env \in Envs
  /\ body \in Bodies
  /\ pc = "received"
  /\ prompt = NoPrompt
  /\ genCalls = 0
  /\ genResult = NoResult
  /\ warned = FALSE
  /\ response = NoResponse
  /\ formData = initialFormData
  /\ isGenerating = FALSE
  /\ error = null
  /\ request = NoRequest
  /\ fetched = NoOutcome
  /\ edits = 0
  /\ OnCreatePage
  /\ NoEditor

SpecPOST == InitPOST /\ [][POST]_vars

\* The whole handler, from the arrival of a request whose body is still to
\* be read.
InitRequest ==
  /\ env \in Envs
  /\ body = NotRead
  /\ pc = "arrived"
  /\ prompt = NoPrompt
  /\ genCalls = 0
  /\ genResult = NoResult
  /\ warned = FALSE
  /\ response = NoResponse
  /\ formData = initialFormData
  /\ isGenerating = FALSE
  /\ error = null
  /\ request = NoRequest
  /\ fetched = NoOutcome
  /\ edits = 0
  /\ OnCreatePage
  /\ NoEditor

Request == POST_ReadBody \/ POST

SpecRequest == InitRequest /\ [][Request]_vars


Form ==
  \/ handleInputChange
  \/ handleContentChange
  \/ handleExampleChange
  \/ addExample
  \/ removeExample
  \/ handleTestCaseChange
  \/ addTestCase
  \/ removeTestCase
  \/ handleStarterCodeChange
  \/ handleGenerateAssets
  \/ fetchSettles
  \/ resumeGenerateAssets

\* The create form on its own, with the network as its environment.
InitForm ==
  /\ env = [GEMINI_API_KEY |-> <<"a">>]
  /\ body = <<>>
  /\ pc = "idle"
  /\ prompt = NoPrompt
  /\ genCalls = 0
  /\ genResult = NoResult
  /\ warned = FALSE
  /\ response = NoResponse
  /\ formData \in Drafts
  /\ isGenerating = FALSE
  /\ error = null
  /\ request = NoRequest
  /\ fetched = NoOutcome
  /\ edits = 0
  /\ OnCreatePage
  /\ NoEditor

SpecForm == InitForm /\ [][Form]_vars

\* The create form and the route handler together: the form's requests are
\* the handler's requests and the handler's responses the form's responses.
Init ==
  /\ env \in Envs
  /\ body = NotRead
  /\ pc = "idle"
  /\ prompt = NoPrompt
  /\ genCalls = 0
  /\ genResult = NoResult
  /\ warned = FALSE
  /\ response = NoResponse
  /\ formData \in Drafts
  /\ isGenerating = FALSE
  /\ error = null
  /\ request = NoRequest
  /\ fetched = NoOutcome
  /\ edits = 0
  /\ OnCreatePage
  /\ NoEditor

Next ==
  \/ handleInputChange
  \/ handleContentChange
  \/ handleExampleChange
  \/ addExample
  \/ removeExample
  \/ handleTestCaseChange
  \/ addTestCase
  \/ removeTestCase
  \/ handleStarterCodeChange
  \/ handleGenerateAssets
  \/ fetchPOST
  \/ POST_Validate
  \/ generateSample
  \/ POST_Normalize
  \/ fetchResolves
  \/ resumeGenerateAssets

Spec == Init /\ [][Next]_vars

\* The create form with clicks that share a render, and the network as its
\* environment.
Clicks ==
  \/ clicksBeforeRender
  \/ handleGenerateAssets
  \/ fetchSettles
  \/ resumeGenerateAssets

SpecClicks == InitForm /\ [][Clicks]_vars

\* A mounted code editor with its user and its parent.
InitEditor ==
  /\ env = [GEMINI_API_KEY |-> <<"a">>]
  /\ body = <<>>
  /\ pc = "idle"
  /\ prompt = NoPrompt
  /\ genCalls = 0
  /\ genResult = NoResult
  /\ warned = FALSE
  /\ response = NoResponse
  /\ formData = initialFormData
  /\ isGenerating = FALSE
  /\ error = null
  /\ request = NoRequest
  /\ fetched = NoOutcome
  /\ edits = 0
  /\ OnCreatePage
  /\ props \in EditorProps
  /\ uncontrolledCode = mountedCode(props)
  /\ submitted = <<>>

Editor ==
  \/ Editor_onChange
  \/ handleResetCode
  \/ handleLanguageChange
  \/ parentRenders
  \/ Editor_handleSubmit

SpecEditor == InitEditor /\ [][Editor]_vars

\* The two forms that write questions to the store, each with the store as
\* its environment: the create page with a draft to submit, or the edit page
\* with a loaded question.
InitPages ==
  /\ env = [GEMINI_API_KEY |-> <<"a">>]
  /\ body = <<>>
  /\ pc = "idle"
  /\ prompt = NoPrompt
  /\ genCalls = 0
  /\ genResult = NoResult
  /\ warned = FALSE
  /\ response = NoResponse
  /\ \/ route = CreateRoute /\ formData \in SubmitDrafts
     \/ route = EditRoute /\ formData \in {loadQuestion(doc) : doc \in StoredDocs}
  /\ isGenerating = FALSE
  /\ error = null
  /\ request = NoRequest
  /\ fetched = NoOutcome
  /\ edits = 0
  /\ isSubmitting = FALSE
  /\ saving = FALSE
  /\ write = NoWrite
  /\ NoEditor

Pages ==
  \/ handleInputChange
  \/ handleContentChange
  \/ handleExampleChange
  \/ addExample
  \/ removeExample
  \/ handleTestCaseChange
  \/ addTestCase
  \/ removeTestCase
  \/ handleStarterCodeChange
  \/ handleSubmit
  \/ addDocSettles
  \/ Edit_handleInputChange
  \/ Edit_handleContentChange
  \/ Edit_handleExampleChange
  \/ Edit_addExample
  \/ Edit_removeExample
  \/ Edit_handleTestCaseChange
  \/ Edit_addTestCase
  \/ Edit_removeTestCase
  \/ handleSave
  \/ updateDocSettles

SpecPages == InitPages /\ [][Pages]_vars

(***************************************************************************)
(* Properties of the POST handler                                          *)
(***************************************************************************)
\* A text field is blank: absent, empty or whitespace only.
BlankText(b, k) ==
  ~Has(b, k) \/ \A i \in 1..Len(b[k]) : b[k][i] \in Whitespace

\* A list of texts is present, and none of its entries is blank.
AllNonBlank(b, k) ==
  Has(b, k) /\ \A i \in 1..Len(b[k]) : \E j \in 1..Len(b[k][i]) : b[k][i][j] \notin Whitespace

TextFieldsFilled(b) == \A k \in TextFields : ~BlankText(b, k)

IsMissingFieldsError(r) ==
  r.status = 400 /\ Head(r.body.error) = "Missing required fields: "

NamedFields(r) == {r.body.error[i] : i \in 2..Len(r.body.error)}

IsExamplesError(r) ==
  r.status = 400 /\ r.body.error \in {ExampleInputsError, ExampleOutputsError}

\* C1: a request with a blank required text field is answered 400
\* 'Missing required fields: ...', and the list names every blank one of
\* problemDescription, constraints, inputFormat, outputFormat.
C1_EveryBlankFieldNamed ==
  (pc = "responded" /\ \E k \in TextFields : BlankText(body, k)) =>
     /\ IsMissingFieldsError(response)
     /\ \A k \in TextFields : BlankText(body, k) => k \in NamedFields(response)

\* C1 witness: constraints is whitespace only and outputFormat is empty, and
\* the handler has answered.
C1_Witness ==
  /\ pc = "responded"
  /\ DOMAIN body = TextFields \cup ListFields
  /\ body.problemDescription = <<"a">> /\ body.inputFormat = <<"a">>
  /\ body.constraints = <<" ">> /\ body.outputFormat = <<>>
  /\ NamedFields(response) = {"constraints", "outputFormat"}

\* C2: when the four text fields are filled and the example
\* inputs and outputs are non-empty, of equal length and non-blank, the
\* request is never rejected by validation, whatever explanations holds.
C2_ExplanationsOptional ==
  ( /\ pc = "responded"
    /\ TextFieldsFilled(body)
    /\ AllNonBlank(body, "exampleInputs") /\ AllNonBlank(body, "exampleOutputs")
    /\ Len(body.exampleInputs) >= 1
    /\ Len(body.exampleInputs) = Len(body.exampleOutputs) )
  => response.status # 400

DifferentNonzeroLengths(b) ==
  /\ Has(b, "exampleInputs") /\ Has(b, "exampleOutputs")
  /\ Len(b.exampleInputs) > 0 /\ Len(b.exampleOutputs) > 0
  /\ Len(b.exampleInputs) # Len(b.exampleOutputs)

\* C3: example inputs and outputs of different nonzero lengths
\* always give an examples-specific error, never the missing-fields error.
C3_LengthMismatchIsExamplesError ==
  (pc = "responded" /\ DifferentNonzeroLengths(body)) => IsExamplesError(response)

\* C4: with the four text fields filled, an empty exampleInputs
\* or one with a blank entry is answered with the example-inputs error.
C4_ExampleInputsError ==
  ( /\ pc = "responded"
    /\ TextFieldsFilled(body)
    /\ Has(body, "exampleInputs")
    /\ Len(body.exampleInputs) = 0 \/ ~AllNonBlank(body, "exampleInputs") )
  => (response.status = 400 /\ response.body.error = ExampleInputsError)

(***************************************************************************)
(* Properties of the response normalizer                                   *)
(***************************************************************************)
\* The generator was called and returned a text (it did not throw), and the
\* handler has answered.
Normalized == pc = "responded" /\ genCalls = 1 /\ ~genResult.threw

\* The raw text is exactly a JSON object, with nothing around it.
BareObject(t) == t.pre = <<>> /\ t.post = <<>> /\ t.doc.kind = "object"

\* Every key of K is present in obj (whatever string it holds).
HasAll(obj, K) == K \subseteq DOMAIN obj

NonBlank(str) == \E i \in 1..Len(str) : str[i] \notin Whitespace

\* A hidden test case with a non-blank input and a non-blank expectedOutput.
CompleteEntry(e) ==
  /\ HasAll(e, EntryKeys)
  /\ NonBlank(e.input) /\ NonBlank(e.expectedOutput)

\* hiddenTestCases is present, an array, and all its entries are complete.
CompleteTests(v) ==
  /\ Has(v, "hiddenTestCases") /\ v.hiddenTestCases.isArray
  /\ \A i \in 1..Len(v.hiddenTestCases.items) : CompleteEntry(v.hiddenTestCases.items[i])

\* C5: a parsed response whose starterCode has the four language keys, each
\* holding a string that may be empty, is accepted (given complete hidden
\* test cases); only an absent key is rejected.
C5_EmptyStarterCodeAccepted ==
  ( /\ Normalized
    /\ BareObject(genResult.text)
    /\ Has(genResult.text.doc.value, "starterCode")
    /\ HasAll(genResult.text.doc.value.starterCode, Languages)
    /\ CompleteTests(genResult.text.doc.value)
    /\ Len(genResult.text.doc.value.hiddenTestCases.items) >= 1 )
  => response.status = 200

\* C6: whenever the handler answers 200, the bundle has the four starterCode
\* languages and every hidden test case has a non-blank input and a
\* non-blank expectedOutput.
C6_BundleFullyValid ==
  (pc = "responded" /\ response.status = 200) =>
     /\ Has(response.body, "starterCode")
     /\ HasAll(response.body.starterCode, Languages)
     /\ CompleteTests(response.body)

\* The text is prose, or a document that lacks one of the four starterCode
\* languages, or whose hiddenTestCases is absent, not an array or empty.
Malformed(t) ==
  \/ t.doc.kind \in {"prose", "null"}
  \/ /\ t.doc.kind = "object"
     /\ \/ ~Has(t.doc.value, "starterCode")
        \/ ~HasAll(t.doc.value.starterCode, Languages)
        \/ ~Has(t.doc.value, "hiddenTestCases")
        \/ ~t.doc.value.hiddenTestCases.isArray
        \/ t.doc.value.hiddenTestCases.items = <<>>

\* C7: when the generator's text is not JSON, or lacks a starterCode
\* language, or has an empty or non-array hiddenTestCases, the handler
\* answers 500 with the fixed processing-failure message, never 200.
C7_MalformedOutputIs500 ==
  (Normalized /\ Malformed(genResult.text)) =>
     (response.status = 500 /\ response.body.error = ProcessingError)

\* C7 witness: the generator returned prose and the handler answered 500.
C7_Witness ==
  /\ Normalized
  /\ genResult.text.doc.kind = "prose"
  /\ response.status = 500

\* C7 witness for the shape check: a JSON object without the java key.
C7_WitnessShape ==
  /\ Normalized
  /\ BareObject(genResult.text)
  /\ Has(genResult.text.doc.value, "starterCode")
  /\ DOMAIN genResult.text.doc.value.starterCode = Languages \ {"java"}
  /\ response.status = 500

\* The text is a bare JSON object with four non-empty starter codes and
\* n >= 1 complete hidden test cases.
WellFormed(t) ==
  /\ BareObject(t)
  /\ Has(t.doc.value, "starterCode")
  /\ HasAll(t.doc.value.starterCode, Languages)
  /\ \A l \in Languages : t.doc.value.starterCode[l] # <<>>
  /\ CompleteTests(t.doc.value)
  /\ Len(t.doc.value.hiddenTestCases.items) >= 1

\* C8: a well-formed response of any length >= 1 is answered 200, and a
\* warning is emitted exactly when the length is below 18 or above 22.
C8_SoftLengthCheck ==
  (Normalized /\ WellFormed(genResult.text)) =>
     /\ response.status = 200
     /\ warned <=> Len(genResult.text.doc.value.hiddenTestCases.items) \notin 18..22

\* C8 witness: 17 test cases are accepted with a warning.
C8_Witness ==
  /\ Normalized /\ WellFormed(genResult.text)
  /\ Len(genResult.text.doc.value.hiddenTestCases.items) = 17
  /\ response.status = 200 /\ warned

\* C8 witness: 22 test cases are accepted without a warning.
C8_WitnessNoWarning ==
  /\ Normalized /\ WellFormed(genResult.text)
  /\ Len(genResult.text.doc.value.hiddenTestCases.items) = 22
  /\ response.status = 200 /\ ~warned

\* The one response of a failed processing of the generator's text.
FixedProcessingResponse ==
  [status |-> 500,
   body |-> [error |-> <<"Failed to process AI response. Please check the format or try again.">>]]

\* C14: whenever the generator returned a text and the handler did not
\* answer 200, the response is one fixed value, the same for every raw text
\* and every request: nothing of the text or of the parser's diagnostic is
\* in it.
C14_FixedFailureResponse ==
  (Normalized /\ response.status # 200) => response = FixedProcessingResponse

\* C14 witness: the generator returned the JSON value null, whose reading
\* throws a TypeError, and the answer is the fixed response.
C14_Witness ==
  /\ Normalized
  /\ genResult.text.doc.kind = "null"
  /\ response = FixedProcessingResponse

\* C14 witness: a different malformed text, prose inside a json fence, for
\* a request with two examples.
C14_WitnessOther ==
  /\ Normalized
  /\ Len(body.exampleInputs) = 2
  /\ genResult.text.doc.kind = "prose"
  /\ genResult.text.pre = <<Fence, "json", "\n">>
  /\ response = FixedProcessingResponse

\* The same document with nothing around it.
Unwrapped(t) == [pre |-> <<>>, doc |-> t.doc, post |-> <<>>]

\* The document stands between an opening fence line, tagged json or
\* untagged, and a closing fence line.
Fenced(t) ==
  /\ t.pre \in {<<Fence, "json", "\n">>, <<Fence, "\n">>}
  /\ t.post \in {<<"\n", Fence>>, <<"\n", Fence, "\n">>}

\* C15: a well-formed JSON object returned inside a json fence or an
\* untagged fence gives the response that the same JSON gives when returned
\* unwrapped: 200 with exactly that object as the bundle.
C15_FenceRoundTrip ==
  ( /\ Normalized
    /\ WellFormed(Unwrapped(genResult.text))
    /\ Fenced(genResult.text) \/ genResult.text = Unwrapped(genResult.text) )
  => response = [status |-> 200, body |-> genResult.text.doc.value]

\* C15 witness: 20 test cases inside an untagged fence were accepted.
C15_Witness ==
  /\ Normalized
  /\ genResult.text.pre = <<Fence, "\n">> /\ genResult.text.post = <<"\n", Fence>>
  /\ Len(genResult.text.doc.value.hiddenTestCases.items) = 20
  /\ response.status = 200 /\ response.body = GoodDoc(20).value

\* C15 witness: the same inside a fence tagged json.
C15_WitnessTagged ==
  /\ Normalized
  /\ genResult.text.pre = <<Fence, "json", "\n">> /\ genResult.text.post = <<"\n", Fence, "\n">>
  /\ response.status = 200 /\ response.body = GoodDoc(20).value

(***************************************************************************)
(* Properties of the prompt                                                *)
(***************************************************************************)
\* The handler has built the prompt and handed it to the generator.
PromptBuilt == genCalls = 1

\* explanations[i] is present and not blank.
HasExplanation(b, i) ==
  /\ Has(b, "explanations")
  /\ i <= Len(b.explanations)
  /\ NonBlank(b.explanations[i])

\* C17: the prompt has one block per example, block i numbered i and holding
\* exampleInputs[i] and exampleOutputs[i], with an Explanation part exactly
\* when explanations[i] is present and non-blank.
C17_ExampleBlocks ==
  PromptBuilt =>
    /\ Len(prompt.examples) = Len(body.exampleInputs)
    /\ \A i \in 1..Len(prompt.examples) :
         /\ prompt.examples[i].number = i
         /\ prompt.examples[i].input = body.exampleInputs[i]
         /\ prompt.examples[i].output = body.exampleOutputs[i]
         /\ prompt.examples[i].explanation.rendered <=> HasExplanation(body, i)

\* The part of the request that example i contributes.
ExampleOf(b, i) ==
  <<b.exampleInputs[i], b.exampleOutputs[i],
    IF i <= Len(b.explanations) THEN b.explanations[i] ELSE <<>> >>

\* The part of the prompt that block i holds.
BlockOf(p, i) ==
  <<p.examples[i].input, p.examples[i].output, p.examples[i].explanation.text>>

\* C19: the prompt is determined by the fields of the request alone: its
\* four text sections are the request's four text fields, and block i is
\* the request's example i, whatever the credential and the rest of the
\* state are; so two requests with the same fields get the same prompt.
C19_PromptDeterminedByRequest ==
  PromptBuilt =>
    /\ \A k \in TextFields : prompt[k] = body[k]
    /\ DOMAIN prompt = TextFields \cup {"examples"}
    /\ Len(prompt.examples) = Len(body.exampleInputs)
    /\ \A i \in 1..Len(prompt.examples) :
         /\ BlockOf(prompt, i) = ExampleOf(body, i)
         /\ prompt.examples[i].number = i
         /\ prompt.examples[i].explanation.rendered
              <=> prompt.examples[i].explanation.text # <<>>

\* C19 witness: the prompt of a request with two examples, the second
\* without an explanation.
C19_Witness ==
  /\ PromptBuilt
  /\ Len(body.exampleInputs) = 2
  /\ body.explanations = << <<"a">> >>
  /\ prompt.examples[1].explanation.text = <<"a">>
  /\ ~prompt.examples[2].explanation.rendered

(***************************************************************************)
(* Properties of the order of the handler's steps                          *)
(***************************************************************************)
\* The three validation checks of lines 77-103 all let the body through.
ValidationPassed(b) ==
  /\ missingFields(b) = <<>>
  /\ ~invalidExampleInputs(b)
  /\ ~invalidExampleOutputs(b)

CredentialPresent(e) == Has(e, "GEMINI_API_KEY") /\ e.GEMINI_API_KEY # <<>>

IsNotConfiguredResponse(r) ==
  /\ r.status = 500
  /\ Has(r.body, "error")
  /\ r.body.error = <<"AI service is not configured on the server.">>

\* C12: the generator is called at most once for a request, and only when
\* validation has passed and the credential is present; a request answered
\* 400 or with the 'not configured' 500 has made no call of the generator.
C12_GeneratorAfterChecksOnce ==
  /\ genCalls <= 1
  /\ genCalls = 1 => (ValidationPassed(body) /\ CredentialPresent(env))
  /\ (pc = "responded" /\ (response.status = 400 \/ IsNotConfiguredResponse(response)))
       => genCalls = 0

\* C12 witness: the one call of the generator threw, the handler answered
\* and made no second call.
C12_Witness ==
  /\ pc = "responded" /\ genCalls = 1 /\ genResult.threw
  /\ response.status = 500

\* C12 witness: a request rejected with 400 although the credential is
\* present made no call.
C12_WitnessRejected ==
  /\ pc = "responded" /\ genCalls = 0
  /\ CredentialPresent(env) /\ response.status = 400

\* C13: without a credential, a request that passes validation is answered
\* 500 with exactly 'AI service is not configured on the server.', and one
\* that fails validation is answered with the validation's 400.
C13_NotConfigured ==
  (pc = "responded" /\ ~CredentialPresent(env)) =>
     IF ValidationPassed(body)
       THEN response = [status |-> 500,
                        body |-> [error |-> <<"AI service is not configured on the server.">>]]
       ELSE response.status = 400

\* C13 witness: a valid request on a server without the credential.
C13_Witness ==
  /\ pc = "responded" /\ ~CredentialPresent(env)
  /\ ValidationPassed(body) /\ Len(body.exampleInputs) = 2
  /\ IsNotConfiguredResponse(response)

\* C13 witness: an invalid request on a server without the credential.
C13_WitnessInvalid ==
  /\ pc = "responded" /\ ~CredentialPresent(env)
  /\ Has(body, "constraints") /\ body.constraints = <<" ">>
  /\ response.status = 400

\* The specification has the four text fields filled and exactly one
\* example, with a non-blank input and a non-blank output.
OneExampleSpecification(b) ==
  /\ TextFieldsFilled(b)
  /\ AllNonBlank(b, "exampleInputs") /\ AllNonBlank(b, "exampleOutputs")
  /\ Len(b.exampleInputs) = 1 /\ Len(b.exampleOutputs) = 1

\* The generator, where the handler called it, returned a well-formed JSON
\* object with the four starter codes and 20 test cases.
GeneratorReturnsTwenty ==
  genCalls = 1 =>
    /\ ~genResult.threw
    /\ WellFormed(genResult.text)
    /\ Len(genResult.text.doc.value.hiddenTestCases.items) = 20

\* C16: a specification with one example and the four text fields filled,
\* on a server with the credential and a generator that returns well-formed
\* JSON with four starter codes and 20 test cases, is answered 200 with
\* those four starter codes and those 20 test cases.
C16_EndToEndSuccess ==
  ( /\ pc = "responded"
    /\ OneExampleSpecification(body)
    /\ CredentialPresent(env)
    /\ GeneratorReturnsTwenty )
  => /\ response.status = 200
     /\ genCalls = 1
     /\ response.body = genResult.text.doc.value

IsGenerationFailed(r, messages) ==
  /\ r.status = 500
  /\ Has(r.body, "error")
  /\ Len(r.body.error) = 2
  /\ r.body.error[1] = "Generation failed: "
  /\ r.body.error[2] \in messages

\* C18: when reading the request body throws or the generator call throws,
\* the handler answers 500 with 'Generation failed: ' followed by the
\* message of what was thrown; and every run of the handler that ends has
\* returned a response.
C18_OtherFailureIs500 ==
  pc = "responded" =>
    /\ response.status \in {200, 400, 500}
    /\ body = NotRead => IsGenerationFailed(response, ReadFailures)
    /\ genResult.threw => IsGenerationFailed(response, {genResult.message})

\* C18 witness: the body could not be read.
C18_Witness ==
  /\ pc = "responded" /\ body = NotRead
  /\ response.body.error = <<"Generation failed: ", "Unexpected token in JSON at position 0">>

\* C18 witness: the generator call threw.
C18_WitnessGenerator ==
  /\ pc = "responded" /\ body # NotRead /\ genResult.threw
  /\ response.body.error = <<"Generation failed: ", "fetch failed">>

(***************************************************************************)
(* Properties of the merge of a generation result into the draft           *)
(***************************************************************************)
\* This step is the fetch settling with a 2xx response: the merge.
MergeStep ==
  /\ request.pending /\ ~request'.pending
  /\ fetched.status \in 200..299

GeneratedTests(data) ==
  IF Has(data, "hiddenTestCases") /\ data.hiddenTestCases.isArray
    THEN data.hiddenTestCases.items
    ELSE <<>>

\* C9: a merge sets starterCode to the generated mapping as a whole when one
\* is present and keeps the previous one otherwise, and sets hiddenTestCases
\* to the generated sequence as a whole when it is non-empty and keeps the
\* previous sequence otherwise.
C9_MergePolicy ==
  [][MergeStep =>
       /\ Has(fetched.body, "starterCode") =>
            formData'.content.starterCode = fetched.body.starterCode
       /\ ~Has(fetched.body, "starterCode") =>
            formData'.content.starterCode = formData.content.starterCode
       /\ GeneratedTests(fetched.body) # <<>> =>
            formData'.content.hiddenTestCases = GeneratedTests(fetched.body)
       /\ GeneratedTests(fetched.body) = <<>> =>
            formData'.content.hiddenTestCases = formData.content.hiddenTestCases]_vars

\* C9 witness: a response carrying only the python starter code and an empty
\* test array was merged: the draft holds exactly that mapping and still its
\* own two hidden test cases.
C9_Witness ==
  /\ ~request.pending /\ Has(request.body, "constraints")
  /\ formData.content.starterCode = Restrict(GeneratedCode, {"python"})
  /\ formData.content.hiddenTestCases = FilledDraft(1, 2).content.hiddenTestCases

\* C9 witness: a response without starterCode and with two test cases was
\* merged: the draft keeps its starter code and holds the generated tests.
C9_WitnessTests ==
  /\ ~request.pending /\ Has(request.body, "constraints")
  /\ formData.content.starterCode = FilledDraft(1, 1).content.starterCode
  /\ formData.content.hiddenTestCases = <<GeneratedEntry(1), GeneratedEntry(2)>>

FrameFields == TextFields \cup ListFields

\* C10: a merge leaves problemDescription, constraints, inputFormat,
\* outputFormat, exampleInputs, exampleOutputs, explanations, order, isActive
\* and deadline as they were immediately before it.
C10_MergeFrame ==
  [][MergeStep =>
       /\ \A k \in FrameFields : formData'.content[k] = formData.content[k]
       /\ formData'.order = formData.order
       /\ formData'.isActive = formData.isActive
       /\ formData'.deadline = formData.deadline]_vars

\* C10 witness: the request was sent with constraints 'a', the admin then
\* changed constraints to 'b', and the merged draft holds 'b' together with
\* the generated starter code.
C10_Witness ==
  /\ ~request.pending
  /\ Has(request.body, "constraints") /\ request.body.constraints = <<"a">>
  /\ formData.content.constraints = <<"b">>
  /\ formData.content.starterCode = GeneratedCode

\* This step ends the generation request without a 2xx response: the fetch
\* or the reading of its body threw, or the status is outside 200-299.
FailureStep ==
  /\ request.pending /\ ~request'.pending
  /\ fetched.status \notin 200..299

\* C11: when the generation request ends in a non-2xx response or a thrown
\* error, the draft is left exactly as it was and an error message is set;
\* outside the admin's own edits the draft changes only in a merge of a 2xx
\* response.
C11_MergeOnlyOnSuccess ==
  [][/\ FailureStep => (formData' = formData /\ error' # null /\ error' # <<>>)
     /\ (formData' # formData /\ edits' = edits) => MergeStep]_vars

\* C11 witness: the request of a filled-in draft was answered 400; the draft
\* still holds its own starter code and hidden test case, and the error is
\* the server's message.
C11_Witness ==
  /\ ~request.pending /\ ~isGenerating
  /\ Has(request.body, "constraints")
  /\ error = <<"Missing required fields: ", "explanations">>
  /\ formData = FilledDraft(1, 1)

\* C11 witness: the fetch was rejected and the draft is as it was.
C11_WitnessThrown ==
  /\ ~request.pending /\ ~isGenerating
  /\ Has(request.body, "constraints")
  /\ error = <<"Failed to fetch">>
  /\ formData = FilledDraft(MaxExamples, MaxDraftTests)

(***************************************************************************)
(* Properties of the Generate button of the create form                    *)
(***************************************************************************)
\* One of the four text fields is blank, the first example lacks its input
\* or its output, or some example has one of input and output but not the
\* other.
Incomplete(c) ==
  \/ \E k \in TextFields : ~NonBlank(c[k])
  \/ Len(c.exampleInputs) = 0 \/ Len(c.exampleOutputs) = 0
  \/ ~NonBlank(c.exampleInputs[1]) \/ ~NonBlank(c.exampleOutputs[1])
  \/ \E i \in 1..Len(c.exampleInputs) :
       NonBlank(c.exampleInputs[i]) # NonBlank(c.exampleOutputs[i])

\* This step is a click on Generate: no request is in flight and the step is
\* not an edit.
ClickGenerate == ~request.pending /\ edits' = edits

\* C21: a click on Generate with a draft in which Description, Constraints,
\* Input Format, Output Format or an example is missing or incomplete sends
\* no request, sets the error message, and leaves isGenerating false and the
\* draft unchanged.
C21_IncompleteDraftNotSent ==
  [][(ClickGenerate /\ Incomplete(formData.content)) =>
       /\ ~request'.pending
       /\ error' = <<"Please fill in Description, Constraints, I/O Formats, and at least one Example before generating.">>
       /\ ~isGenerating'
       /\ formData' = formData]_vars

\* Position i of xs is not blank and is the n-th such position.
IsNthNonBlank(xs, i, n) ==
  /\ i \in 1..Len(xs) /\ NonBlank(xs[i])
  /\ Cardinality({j \in 1..i : NonBlank(xs[j])}) = n

\* This step sends a generation request.
SendStep == ~request.pending /\ request'.pending

\* C22: in the request the form sends, position n of exampleInputs,
\* exampleOutputs and explanations come from one and the same example of
\* the draft.
C22_RequestExamplesAligned ==
  [][SendStep =>
       \A n \in 1..Len(request'.body.exampleInputs) :
         \E i \in 1..Len(formData.content.exampleInputs) :
           /\ IsNthNonBlank(formData.content.exampleInputs, i, n)
           /\ request'.body.exampleInputs[n] = formData.content.exampleInputs[i]
           /\ n <= Len(request'.body.exampleOutputs)
                => request'.body.exampleOutputs[n] = formData.content.exampleOutputs[i]
           /\ n <= Len(request'.body.explanations)
                => request'.body.explanations[n] = formData.content.explanations[i]]_vars

\* C27: at most one generation request is in flight: isGenerating is true
\* exactly while a request is in flight, from its send until it completes by
\* any path, and while it is true the disabled button sends no other
\* request.
C27_OneRequestInFlight ==
  [][/\ isGenerating <=> request.pending
     /\ isGenerating' <=> request'.pending
     /\ request.pending => request'.body = request.body]_vars

\* A request is in flight and the draft has changed since, so that a click
\* on Generate would send another request.
C27_Witness ==
  /\ isGenerating /\ request.pending
  /\ ~precheckFails(formData.content)
  /\ requestBody(formData.content) # request.body

C20_FormRequestsPassValidation ==
  (pc = "responded" /\ request.pending) => response.status # 400

(***************************************************************************)
(* Properties of the documents the two forms write                         *)
(***************************************************************************)
\* This step hands a document to the store.
WriteStep == write.state # "pending" /\ write'.state = "pending"

\* C23: in a coding question document handed to the store, exampleOutputs[n]
\* and explanations[n] are those of the draft's example whose input is
\* written as exampleInputs[n], also when an earlier example of the draft has
\* a blank input.
C23_PersistedExamplesAligned ==
  [][(WriteStep /\ write'.type = "coding") =>
       LET doc == write'.data.content
           c == formData.content
       IN \A n \in 1..Len(doc.exampleInputs) :
            \E i \in 1..Len(c.exampleInputs) :
              /\ IsNthNonBlank(c.exampleInputs, i, n)
              /\ doc.exampleInputs[n] = c.exampleInputs[i]
              /\ n <= Len(doc.exampleOutputs)
              /\ doc.exampleOutputs[n] = c.exampleOutputs[i]
              /\ n <= Len(doc.explanations)
              /\ doc.explanations[n] = c.explanations[i]]_vars

\* This step is a submit of the create form: no submit is under way and the
\* step is not an edit.
SubmitStep == route = CreateRoute /\ ~isSubmitting /\ edits' = edits

\* The draft has a hidden test case with both input and output, at some
\* position.
HasCompleteTestCase(c) ==
  \E i \in 1..Len(c.hiddenTestCases) : CompleteEntry(c.hiddenTestCases[i])

\* C24: a submit of the create form (with a deadline and a description) is
\* rejected with the hidden-test-case message exactly when the draft has no
\* complete hidden test case; a complete one at any position is enough.
C24_RejectedIffNoCompleteTestCase ==
  [][(SubmitStep /\ formData.deadline # <<>>
        /\ NonBlank(formData.content.problemDescription)) =>
       ((error' = <<"At least one valid hidden test case (with both input and output) is required.">>)
          <=> ~HasCompleteTestCase(formData.content))]_vars

\* A coding question document as the claim wants it stored.
ValidDocument(doc) ==
  /\ NonBlank(doc.problemDescription)
  /\ Len(doc.hiddenTestCases) >= 1
  /\ \A i \in 1..Len(doc.hiddenTestCases) : CompleteEntry(doc.hiddenTestCases[i])
  /\ \A i \in 1..Len(doc.exampleInputs) : NonBlank(doc.exampleInputs[i])

\* The draft passes the deadline, description and hidden-test-case checks.
PassesValidation(fd, type) ==
  /\ fd.deadline # <<>>
  /\ NonBlank(fd.content.problemDescription)
  /\ type = "coding" =>
       /\ Len(fd.content.hiddenTestCases) >= 1
       /\ CompleteEntry(fd.content.hiddenTestCases[1])

\* C25: every coding question document either form hands to the store has a
\* non-blank problemDescription, at least one hidden test case, no hidden
\* test case with a blank input or expectedOutput and no blank example
\* input; and a document is handed to the store only by a draft that passes
\* the deadline, description and hidden-test-case validation.
C25_WrittenDocumentsValid ==
  [][WriteStep =>
       /\ write'.op \in {"addDoc", "updateDoc"}
       /\ PassesValidation(formData, write'.type)
       /\ write'.type = "coding" => ValidDocument(write'.data.content)]_vars

\* Both forms' cases: a stored coding document from which the filter has
\* dropped an incomplete hidden test case of the draft.
C25_Witness ==
  /\ write.state = "written"
  /\ write.type = "coding"
  /\ Len(write.data.content.hiddenTestCases) < Len(formData.content.hiddenTestCases)
  /\ \E i \in 1..Len(formData.content.exampleInputs) :
       ~NonBlank(formData.content.exampleInputs[i])

(***************************************************************************)
(* Properties of the edit page                                             *)
(***************************************************************************)
\* handleSave has rejected the draft, or the store has refused the update.
SaveFailed == route = EditRoute /\ error # null

\* C28: after handleSave rejects the draft or the store's update fails, the
\* edit form stays rendered (with the draft and the error), so the admin can
\* correct the draft and save again.
C28_FormStaysAfterFailedSave ==
  SaveFailed => (FormRendered /\ ~isNull(formData))

(***************************************************************************)
(* Properties of the code editor                                           *)
(***************************************************************************)
\* The code the editor displays: the parent's value in controlled mode, the
\* internal code in uncontrolled mode.
Displayed ==
  IF Has(props, "value") /\ Has(props, "onChange") THEN props.value ELSE uncontrolledCode

\* C29: CodeEditor calls onSubmit only when the displayed code is not empty
\* and isSubmitting is false, and passes exactly the displayed code; hence
\* while isSubmitting is true no click produces a call of onSubmit.
C29_SubmitOnlyDisplayedCode ==
  [][submitted' # submitted =>
       /\ ~props.isSubmitting
       /\ Displayed # <<>>
       /\ submitted' = Append(submitted, Displayed)]_vars

\* The editor has submitted its code, the parent has set isSubmitting, and
\* there is code a click could submit again.
C29_Witness ==
  /\ props.mounted
  /\ Len(submitted) >= 1
  /\ props.isSubmitting
  /\ Displayed # <<>>
  /\ submitted[Len(submitted)] # Displayed

====
